---- MODULE Spec2Model ----
(***************************************************************************)
(* Model of console.py: the interactive loop of main(), call_llm,          *)
(* execute_command and detect_shell.  Text is modelled as a sequence of    *)
(* one-character strings so that lower(), strip(), startswith() and the    *)
(* slice [1:] are computed, not assumed.                                   *)
(***************************************************************************)
EXTENDS Integers, Sequences, FiniteSets, TLC

VARIABLES
    pc,            \* where main() is: Startup, Idle, Classified, Translating,
                   \* AwaitingConfirmation, Dispatching, Terminated
    env_SHELL,     \* os.environ.get("SHELL")   (None when absent)
    env_ComSpec,   \* os.environ.get("ComSpec") (None when absent)
    user_input,    \* local of main(), line 108
    llm_command,   \* local of main(), line 116
    confirmation,  \* local of main(), line 117
    command,       \* parameter of the running call_llm / execute_command
    call_llm_shell, \* local `shell` of call_llm, line 67
    messages,      \* local of call_llm, lines 71-74
    exit_cause,    \* why main() ended: none, exit, eof, or the uncaught failure
    trace          \* what the current loop iteration has done so far, in order

vars == <<pc, env_SHELL, env_ComSpec, user_input, llm_command, confirmation,
          command, call_llm_shell, messages, exit_cause, trace>>

-----------------------------------------------------------------------------
(* Bounds *)

\* longest run of whitespace put before or after an input line
MaxPad == 1

\* most shell names joined into one value of an environment variable
MaxNames == 2

-----------------------------------------------------------------------------
(* Text *)

\* Python's None / an unbound local
None == <<"<None>">>

Whitespace == {" ", "\t"}

CasePairs ==
    { <<"E","e">>, <<"X","x">>, <<"I","i">>, <<"T","t">>, <<"Y","y">>,
      <<"S","s">>, <<"N","n">>, <<"O","o">>, <<"P","p">>, <<"C","c">>,
      <<"M","m">>, <<"D","d">>, <<"B","b">>, <<"A","a">>, <<"H","h">>,
      <<"W","w">>, <<"R","r">>, <<"L","l">> }

LowerChar(c) ==
    IF \E p \in CasePairs : p[1] = c
    THEN (CHOOSE p \in CasePairs : p[1] = c)[2]
    ELSE c

UpperChar(c) ==
    IF \E p \in CasePairs : p[2] = c
    THEN (CHOOSE p \in CasePairs : p[2] = c)[1]
    ELSE c

\* str.lower()
Lower(s) == [i \in 1..Len(s) |-> LowerChar(s[i])]

SetMin(S) == CHOOSE m \in S : \A n \in S : m <= n
SetMax(S) == CHOOSE m \in S : \A n \in S : n <= m

\* str.strip()
Strip(s) ==
    LET keep == {i \in 1..Len(s) : s[i] \notin Whitespace}
    IN  IF keep = {} THEN <<>> ELSE SubSeq(s, SetMin(keep), SetMax(keep))

\* str.startswith(p)
StartsWith(s, p) == Len(s) >= Len(p) /\ SubSeq(s, 1, Len(p)) = p

\* the slice s[1:]
DropFirst(s) == SubSeq(s, 2, Len(s))

\* the test `sub in s`
Contains(s, sub) ==
    \E i \in 1..(Len(s) - Len(sub) + 1) : SubSeq(s, i, i + Len(sub) - 1) = sub

\* the literals of the source
EXIT == <<"e","x","i","t">>
BANG == <<"!">>
YES == <<"y","e","s">>
Y == <<"y">>
BASH == <<"b","a","s","h">>
POWERSHELL == <<"p","o","w","e","r","s","h","e","l","l">>
CMD == <<"c","m","d">>
UNKNOWN == <<"u","n","k","n","o","w","n">>

-----------------------------------------------------------------------------
(* Inputs *)

\* every spelling of w in upper and lower case
RECURSIVE CaseVariants(_)
CaseVariants(w) ==
    IF w = <<>> THEN {<<>>}
    ELSE { <<c>> \o rest : c \in {Head(w), UpperChar(Head(w))},
                           rest \in CaseVariants(Tail(w)) }

\* runs of one whitespace character, up to MaxPad long
Pads == UNION {{[i \in 1..k |-> c] : c \in Whitespace} : k \in 0..MaxPad}

\* a line with such a run in front, behind, or the same run on both sides
Padded(core) ==
    {l \o core : l \in Pads} \cup {core \o r : r \in Pads}
    \cup {p \o core \o p : p \in Pads}

\* lines typed at the "> " prompt
CommandLines ==
    CaseVariants(EXIT)
    \cup Padded(EXIT)
    \cup Padded(<<"!","l","s">>)
    \cup Padded(<<>>)
    \cup { <<"d","i","r">>, <<"!">>, <<"!"," ","l","s"," ">>, <<"!","!","l","s">>,
           <<"!","e","x","i","t">>, <<"y">>, <<"e","x","i","t","!">> }

\* lines typed at the confirmation prompt
ConfirmLines ==
    CaseVariants(YES)
    \cup CaseVariants(Y)
    \cup Padded(YES)
    \cup Padded(Y)
    \cup Padded(<<"n","o">>)
    \cup Padded(<<>>)
    \cup { <<" ","Y","e","S","\t">>, <<"y","e">>, <<"y"," ","e","s">>,
           <<"e","x","i","t">> }

\* values of the two environment variables
ShellValues == { None, <<"/","b","i","n","/">> \o BASH }
ComSpecValues == { None, CMD \o <<".","e","x","e">> }

\* values of the two environment variables when detect_shell is checked alone:
\* absent, empty, or up to MaxNames names in a row, in several letter cases
EnvNames ==
    { BASH, <<"B","a","s","h">>, POWERSHELL,
      <<"P","o","w","e","r","S","h","e","l","l">>, CMD, <<"C","M","D">>,
      <<"z","s","h">> }

RECURSIVE EnvJoined(_)
EnvJoined(n) ==
    IF n = 0 THEN {<<>>}
    ELSE LET shorter == EnvJoined(n - 1)
         IN  shorter \cup {a \o b : a \in EnvNames, b \in shorter}

EnvValues == {None} \cup EnvJoined(MaxNames)

\* what llm.create_chat_completion can give back: an exception, or a response
\* whose "choices" list is empty or holds one choice, whose message may lack
\* "content"
ModelContents ==
    { <<"l","s">>, <<" ","l","s"," ">>, <<"r","m">>, <<>>, <<" ">> }

ModelResponses ==
    { [raises |-> TRUE, choices |-> <<>>] ,
      [raises |-> FALSE, choices |-> <<>>],
      [raises |-> FALSE, choices |-> <<[hasContent |-> FALSE, content |-> <<>>]>>] }
    \cup { [raises |-> FALSE, choices |-> <<[hasContent |-> TRUE, content |-> c]>>] :
            c \in ModelContents }

\* what subprocess.run(..., check=True, capture_output=True) observes
ExecOutcomes ==
    [returncode : {0, 1}, stdout : {<<"o">>}, stderr : {<<>>, <<"e">>}]

-----------------------------------------------------------------------------
(* Events of the trace *)

Ev(e, w, t) == [ev |-> e, what |-> w, text |-> t]

Printed(w, t) == Ev("print", w, t)

Select(tr, e) == SelectSeq(tr, LAMBDA x : x.ev = e)
Count(tr, e) == Len(Select(tr, e))
CountPrinted(tr, w) == Len(SelectSeq(tr, LAMBDA x : x.ev = "print" /\ x.what = w))
Positions(tr, e) == {i \in 1..Len(tr) : tr[i].ev = e}

-----------------------------------------------------------------------------
(* detect_shell, get_system_prompt *)

\* line 11 falling back only when SHELL is absent, not when it is empty
PyOr_NoneOnly(a, b) == IF a = None THEN b ELSE a

\* Python's `a or b` on optional strings: b when a is None or empty
PyOr(a, b) == IF a = None \/ a = <<>> THEN b ELSE a

\* lines 16 and 18 without .lower()
detect_shell_CaseSensitive ==
    LET shell == PyOr(env_SHELL, env_ComSpec)
    IN  IF shell = None THEN UNKNOWN
        ELSE IF Contains(shell, BASH) THEN BASH
        ELSE IF Contains(shell, POWERSHELL) THEN POWERSHELL
        ELSE IF Contains(shell, CMD) THEN CMD
        ELSE UNKNOWN

detect_shell ==
    LET shell == PyOr(env_SHELL, env_ComSpec)
    IN  IF shell = None THEN UNKNOWN
        ELSE IF Contains(shell, BASH) THEN BASH
        ELSE IF Contains(Lower(shell), POWERSHELL) THEN POWERSHELL
        ELSE IF Contains(Lower(shell), CMD) THEN CMD
        ELSE UNKNOWN

get_system_prompt(shell) ==
    <<"You are an assistant that generates valid and safe shell commands for the '">>
    \o shell
    \o <<"' environment. ",
         "Always return a single shell command in response to the user's request. Do not provide explanations.">>

-----------------------------------------------------------------------------
(* The tests of main() *)

\* line 110 without .lower()
IsExit_CaseSensitive(line) == line = EXIT

\* line 110 with a .strip() the source does not have
IsExit_Stripped(line) == Lower(Strip(line)) = EXIT

\* line 110
IsExit(line) == Lower(line) = EXIT

\* line 114 on the trimmed line
IsTranslate_Stripped(line) == StartsWith(Strip(line), BANG)

\* line 114
IsTranslate(line) == StartsWith(line, BANG)

\* line 116 without .strip()
Instruction_NoStrip(line) == DropFirst(line)

\* line 116: the argument handed to call_llm
Instruction(line) == Strip(DropFirst(line))

\* line 117 without .lower()
Normalised_NoLower(line) == Strip(line)

\* line 117: what is kept of the confirmation line
Normalised(line) == Lower(Strip(line))

\* line 119 as a prefix test
Affirmative_Prefix(c) == StartsWith(c, Y)

\* line 119 with the empty answer taken as yes
Affirmative_EmptyIsYes(c) == c \in {YES, Y, <<>>}

\* line 119
Affirmative(c) == c \in {YES, Y}

-----------------------------------------------------------------------------
(* Initial state: the process has started, main() has not yet run *)

Init ==
    /\ pc = "Startup"
    /\ env_SHELL \in ShellValues
    /\ env_ComSpec \in ComSpecValues
    /\ user_input = None
    /\ llm_command = None
    /\ confirmation = None
    /\ command = None
    /\ call_llm_shell = None
    /\ messages = <<>>
    /\ exit_cause = "none"
    /\ trace = <<>>

\* an exception nothing catches leaves main(): the process ends
Uncaught(cause, tr) ==
    /\ pc' = "Terminated"
    /\ exit_cause' = cause
    /\ trace' = tr

\* lines 127-128 followed by a break
Canceled_Breaks(tr) ==
    /\ pc' = "Terminated"
    /\ exit_cause' = "interrupt"
    /\ trace' = Append(tr, Printed("canceled", <<>>))

\* except KeyboardInterrupt, lines 127-128
Canceled(tr) ==
    /\ pc' = "Idle"
    /\ trace' = Append(tr, Printed("canceled", <<>>))
    /\ UNCHANGED exit_cause

\* lines 129-130 without the break
Exiting_NoBreak(tr) ==
    /\ pc' = "Idle"
    /\ trace' = Append(tr, Printed("exiting", <<>>))
    /\ UNCHANGED exit_cause

\* except EOFError, lines 129-131
Exiting(tr) ==
    /\ pc' = "Terminated"
    /\ exit_cause' = "eof"
    /\ trace' = Append(tr, Printed("exiting", <<>>))

-----------------------------------------------------------------------------
(* Startup, lines 98-104 *)

ConfigureOk ==
    /\ pc = "Startup"
    /\ pc' = "Idle"
    /\ trace' = <<Printed("welcome", <<>>)>>
    /\ UNCHANGED <<call_llm_shell, env_SHELL, env_ComSpec, user_input, llm_command, confirmation,
                   command, messages, exit_cause>>

\* line 98 wrapped in a handler that carries on without a model
ConfigureFails_CarriesOn ==
    /\ pc = "Startup"
    /\ pc' = "Idle"
    /\ trace' = <<Ev("configure_failed", "", <<>>), Printed("welcome", <<>>)>>
    /\ UNCHANGED <<call_llm_shell, env_SHELL, env_ComSpec, user_input, llm_command,
                   confirmation, command, messages, exit_cause>>

\* hf_hub_download or Llama(...) raises: nothing catches it
ConfigureFails ==
    /\ pc = "Startup"
    /\ Uncaught("startup_failure", <<Ev("configure_failed", "", <<>>)>>)
    /\ UNCHANGED <<call_llm_shell, env_SHELL, env_ComSpec, user_input, llm_command, confirmation,
                   command, messages>>

-----------------------------------------------------------------------------
(* session.prompt("> "), line 108: a loop iteration begins *)

PromptCommand == <<Ev("prompt", "command", <<>>)>>

ReadCommand ==
    /\ pc = "Idle"
    /\ \E line \in CommandLines :
        /\ user_input' = line
        /\ trace' = Append(PromptCommand, Ev("read", "command", line))
    /\ pc' = "Classified"
    /\ UNCHANGED <<call_llm_shell, env_SHELL, env_ComSpec, llm_command, confirmation, command,
                   messages, exit_cause>>

InterruptCommand ==
    /\ pc = "Idle"
    /\ Canceled(Append(PromptCommand, Ev("interrupt", "command", <<>>)))
    /\ UNCHANGED <<call_llm_shell, env_SHELL, env_ComSpec, user_input, llm_command, confirmation,
                   command, messages>>

EndOfInputCommand ==
    /\ pc = "Idle"
    /\ Exiting(Append(PromptCommand, Ev("eof", "command", <<>>)))
    /\ UNCHANGED <<call_llm_shell, env_SHELL, env_ComSpec, user_input, llm_command, confirmation,
                   command, messages>>

ReadCommandFails ==
    /\ pc = "Idle"
    /\ Uncaught("read_failure", Append(PromptCommand, Ev("read_failed", "command", <<>>)))
    /\ UNCHANGED <<call_llm_shell, env_SHELL, env_ComSpec, user_input, llm_command, confirmation,
                   command, messages>>

-----------------------------------------------------------------------------
(* Classification, lines 110-125 *)

\* lines 110-112
ClassifyExit ==
    /\ pc = "Classified"
    /\ IsExit(user_input)
    /\ pc' = "Terminated"
    /\ exit_cause' = "exit"
    /\ trace' = Append(trace, Printed("farewell", <<>>))
    /\ UNCHANGED <<call_llm_shell, env_SHELL, env_ComSpec, user_input, llm_command, confirmation,
                   command, messages>>

\* lines 114-116 and 67-77: call_llm is entered and the model is called
ClassifyTranslate ==
    /\ pc = "Classified"
    /\ ~IsExit(user_input)
    /\ IsTranslate(user_input)
    /\ command' = Instruction(user_input)
    /\ call_llm_shell' = detect_shell
    /\ messages' = << [role |-> "system", content |-> get_system_prompt(call_llm_shell')],
                      [role |-> "user", content |-> command'] >>
    /\ trace' = Append(trace, Ev("translate", "call_llm", command'))
    /\ pc' = "Translating"
    /\ UNCHANGED <<env_SHELL, env_ComSpec, user_input, llm_command, confirmation,
                   exit_cause>>

\* lines 123-125: execute_command(user_input) is entered
ClassifyDirect ==
    /\ pc = "Classified"
    /\ ~IsExit(user_input)
    /\ ~IsTranslate(user_input)
    /\ command' = user_input
    /\ trace' = Append(trace, Ev("exec", "direct", command'))
    /\ pc' = "Dispatching"
    /\ UNCHANGED <<call_llm_shell, env_SHELL, env_ComSpec, user_input, llm_command, confirmation,
                   messages, exit_cause>>

-----------------------------------------------------------------------------
(* call_llm, lines 77-81, and the confirmation prompt of line 117 *)

\* line 78: response["choices"][0]["message"]["content"] can be read
Usable(resp) ==
    /\ ~resp.raises
    /\ Len(resp.choices) >= 1
    /\ resp.choices[1].hasContent

\* line 78 without .strip()
SuggestedCommand_NoStrip(resp) == resp.choices[1].content

\* line 78
SuggestedCommand(resp) == Strip(resp.choices[1].content)

\* the model answers; call_llm prints and returns; line 117 shows the prompt
TranslateReturns ==
    /\ pc = "Translating"
    /\ \E resp \in ModelResponses :
        /\ Usable(resp)
        /\ llm_command' = SuggestedCommand(resp)
        /\ trace' = trace \o << Ev("translated", "content", resp.choices[1].content),
                                Printed("suggested", llm_command'),
                                Ev("prompt", "confirmation", llm_command') >>
    /\ pc' = "AwaitingConfirmation"
    /\ command' = None
    /\ call_llm_shell' = None
    /\ messages' = <<>>
    /\ UNCHANGED <<env_SHELL, env_ComSpec, user_input, confirmation, exit_cause>>

\* the model call raises, or line 78 raises IndexError / KeyError: main() has
\* no handler for it
TranslateFails ==
    /\ pc = "Translating"
    /\ \E resp \in ModelResponses :
        /\ ~Usable(resp)
        /\ Uncaught("translation_failure",
                    Append(trace, Ev("translate_failed",
                                     IF resp.raises THEN "raises"
                                     ELSE IF resp.choices = <<>> THEN "no_choice"
                                     ELSE "no_content", <<>>)))
    /\ command' = None
    /\ call_llm_shell' = None
    /\ messages' = <<>>
    /\ UNCHANGED <<env_SHELL, env_ComSpec, user_input, llm_command, confirmation>>

\* Ctrl-C while the model call is running
InterruptTranslate ==
    /\ pc = "Translating"
    /\ Canceled(Append(trace, Ev("interrupt", "translate", <<>>)))
    /\ command' = None
    /\ call_llm_shell' = None
    /\ messages' = <<>>
    /\ UNCHANGED <<env_SHELL, env_ComSpec, user_input, llm_command, confirmation>>

-----------------------------------------------------------------------------
(* The confirmation line, lines 117-122 *)

\* lines 119-125 with the else of line 123 lost: after the suggested command
\* the typed line is executed too
ConfirmYes_FallsThrough ==
    /\ pc = "AwaitingConfirmation"
    /\ \E line \in ConfirmLines :
        /\ confirmation' = Normalised(line)
        /\ Affirmative(confirmation')
        /\ trace' = trace \o << Ev("read", "confirmation", line),
                                Ev("exec", "suggested", llm_command),
                                Ev("exec", "direct", user_input) >>
    /\ command' = user_input
    /\ pc' = "Dispatching"
    /\ UNCHANGED <<call_llm_shell, env_SHELL, env_ComSpec, user_input, llm_command,
                   messages, exit_cause>>

\* lines 117-120: an affirmative line; execute_command(llm_command) is entered
ConfirmYes ==
    /\ pc = "AwaitingConfirmation"
    /\ \E line \in ConfirmLines :
        /\ confirmation' = Normalised(line)
        /\ Affirmative(confirmation')
        /\ trace' = trace \o << Ev("read", "confirmation", line),
                                Ev("exec", "suggested", llm_command) >>
    /\ command' = llm_command
    /\ pc' = "Dispatching"
    /\ UNCHANGED <<call_llm_shell, env_SHELL, env_ComSpec, user_input, llm_command, messages,
                   exit_cause>>

\* lines 117-122 asking again until the answer is a yes
ConfirmNo_AsksAgain ==
    /\ pc = "AwaitingConfirmation"
    /\ \E line \in ConfirmLines :
        /\ confirmation' = Normalised(line)
        /\ ~Affirmative(confirmation')
    /\ pc' = "AwaitingConfirmation"
    /\ UNCHANGED <<call_llm_shell, env_SHELL, env_ComSpec, user_input, llm_command,
                   command, messages, exit_cause, trace>>

\* lines 117-122: any other line
ConfirmNo ==
    /\ pc = "AwaitingConfirmation"
    /\ \E line \in ConfirmLines :
        /\ confirmation' = Normalised(line)
        /\ ~Affirmative(confirmation')
        /\ trace' = trace \o << Ev("read", "confirmation", line),
                                Printed("skipped", <<>>) >>
    /\ pc' = "Idle"
    /\ UNCHANGED <<call_llm_shell, env_SHELL, env_ComSpec, user_input, llm_command, command,
                   messages, exit_cause>>

InterruptConfirm ==
    /\ pc = "AwaitingConfirmation"
    /\ Canceled(Append(trace, Ev("interrupt", "confirmation", <<>>)))
    /\ UNCHANGED <<call_llm_shell, env_SHELL, env_ComSpec, user_input, llm_command, confirmation,
                   command, messages>>

EndOfInputConfirm ==
    /\ pc = "AwaitingConfirmation"
    /\ Exiting(Append(trace, Ev("eof", "confirmation", <<>>)))
    /\ UNCHANGED <<call_llm_shell, env_SHELL, env_ComSpec, user_input, llm_command, confirmation,
                   command, messages>>

ReadConfirmFails ==
    /\ pc = "AwaitingConfirmation"
    /\ Uncaught("read_failure", Append(trace, Ev("read_failed", "confirmation", <<>>)))
    /\ UNCHANGED <<call_llm_shell, env_SHELL, env_ComSpec, user_input, llm_command, confirmation,
                   command, messages>>

-----------------------------------------------------------------------------
(* execute_command, lines 90-94 *)

\* lines 92-94 printing the captured output whatever the exit status
Shown_AlwaysStdout(o) == Printed("stdout", o.stdout)

\* what execute_command prints for an outcome of subprocess.run
Shown(o) ==
    IF o.returncode = 0 THEN Printed("stdout", o.stdout)
    ELSE Printed("stderr", o.stderr)

ExecuteReturns ==
    /\ pc = "Dispatching"
    /\ \E o \in ExecOutcomes :
        trace' = trace \o << Ev("exited", IF o.returncode = 0 THEN "zero" ELSE "nonzero",
                                command),
                             Ev("captured", "stdout", o.stdout),
                             Ev("captured", "stderr", o.stderr),
                             Shown(o) >>
    /\ pc' = "Idle"
    /\ command' = None
    /\ UNCHANGED <<call_llm_shell, env_SHELL, env_ComSpec, user_input, llm_command, confirmation,
                   messages, exit_cause>>

\* Ctrl-C while the child process is running
InterruptExecute ==
    /\ pc = "Dispatching"
    /\ Canceled(Append(trace, Ev("interrupt", "execute", <<>>)))
    /\ command' = None
    /\ UNCHANGED <<call_llm_shell, env_SHELL, env_ComSpec, user_input, llm_command, confirmation,
                   messages>>

-----------------------------------------------------------------------------

Next ==
    \/ ConfigureOk
    \/ ConfigureFails
    \/ ReadCommand
    \/ InterruptCommand
    \/ EndOfInputCommand
    \/ ReadCommandFails
    \/ ClassifyExit
    \/ ClassifyTranslate
    \/ ClassifyDirect
    \/ TranslateReturns
    \/ TranslateFails
    \/ InterruptTranslate
    \/ ConfirmYes
    \/ ConfirmNo
    \/ InterruptConfirm
    \/ EndOfInputConfirm
    \/ ReadConfirmFails
    \/ ExecuteReturns
    \/ InterruptExecute

Spec == Init /\ [][Next]_vars

\* the steps that follow a line read, a model call or a child process coming
\* back: every blocking call returns or raises
Progress ==
    \/ ClassifyExit
    \/ ClassifyTranslate
    \/ ClassifyDirect
    \/ TranslateReturns
    \/ TranslateFails
    \/ InterruptTranslate
    \/ ConfirmYes
    \/ ConfirmNo
    \/ InterruptConfirm
    \/ EndOfInputConfirm
    \/ ReadConfirmFails
    \/ ExecuteReturns
    \/ InterruptExecute

LiveSpec == Spec /\ WF_vars(Progress)

-----------------------------------------------------------------------------
(* detect_shell on its own: any environment, one call *)

InitDetect ==
    /\ pc = "Detect"
    /\ env_SHELL \in EnvValues
    /\ env_ComSpec \in EnvValues
    /\ user_input = None
    /\ llm_command = None
    /\ confirmation = None
    /\ command = None
    /\ call_llm_shell = None
    /\ messages = <<>>
    /\ exit_cause = "none"
    /\ trace = <<>>

\* line 67: shell = detect_shell()
DetectShell ==
    /\ pc = "Detect"
    /\ call_llm_shell' = detect_shell
    /\ pc' = "Detected"
    /\ UNCHANGED <<env_SHELL, env_ComSpec, user_input, llm_command, confirmation,
                   command, messages, exit_cause, trace>>

NextDetect == DetectShell

SpecDetect == InitDetect /\ [][NextDetect]_vars

-----------------------------------------------------------------------------
(* Type correctness *)

TypeOK ==
    /\ pc \in {"Startup", "Idle", "Classified", "Translating",
               "AwaitingConfirmation", "Dispatching", "Terminated"}
    /\ exit_cause \in {"none", "exit", "eof", "read_failure",
                       "translation_failure", "startup_failure"}
    /\ (pc = "Terminated") <=> (exit_cause # "none")

-----------------------------------------------------------------------------
(* Vocabulary of the properties.  The trace holds the current loop          *)
(* iteration only: it is started again by each session.prompt("> ").        *)

Has(e, w) == \E i \in DOMAIN trace : trace[i].ev = e /\ trace[i].what = w

\* the line read at the "> " prompt / at the confirmation prompt
LineRead(w) == trace[CHOOSE i \in DOMAIN trace : trace[i].ev = "read" /\ trace[i].what = w].text

\* calls of call_llm, calls of execute_command, confirmation prompts shown
TranslateCalls == Count(trace, "translate")
ExecuteCalls == Count(trace, "exec")
ConfirmPrompts == Len(SelectSeq(trace, LAMBDA x : x.ev = "prompt" /\ x.what = "confirmation"))
PromptsShown == Count(trace, "prompt")

\* a confirmation line that says yes: "yes" or "y" once trimmed and lower-cased
SaysYes(line) == Lower(Strip(line)) \in {<<"y","e","s">>, <<"y">>}

\* the line has been classified and acted upon
Classified == Has("read", "command") /\ pc # "Classified"

\* the model call of this iteration failed
ModelFailed == \E i \in DOMAIN trace : trace[i].ev = "translate_failed"

\* an interrupt / end of input arrived while a line was being read
InterruptedRead == Has("interrupt", "command") \/ Has("interrupt", "confirmation")
EndOfInputRead == Has("eof", "command") \/ Has("eof", "confirmation")

-----------------------------------------------------------------------------
(* C1 *)

\* C1: a model-suggested command is handed to execute_command only right
\* after a confirmation line that says yes was read, in the loop iteration
\* whose translation produced it.
C1_ConfirmationGate ==
    \A i \in DOMAIN trace :
        (trace[i].ev = "exec" /\ trace[i].what = "suggested") =>
            /\ i > 1
            /\ trace[i-1].ev = "read"
            /\ trace[i-1].what = "confirmation"
            /\ SaysYes(trace[i-1].text)
            /\ \E j \in 1..(i-2) : trace[j].ev = "translated"

C1_Witness ==
    /\ pc = "Idle"
    /\ Has("exec", "suggested")
    /\ Has("read", "confirmation")
    /\ LineRead("confirmation") = <<" ","Y","e","S","\t">>
    /\ Has("exited", "zero")

-----------------------------------------------------------------------------
(* C2 *)

\* C2: once a "!" line was answered by a confirmation line that says yes,
\* call_llm has been called exactly once and execute_command exactly once,
\* in that order, and main() is executing the command or back at the prompt.
C2_TranslateThenExecuteOnce ==
    (Has("read", "confirmation") /\ SaysYes(LineRead("confirmation"))) =>
        /\ StartsWith(LineRead("command"), <<"!">>)
        /\ TranslateCalls = 1
        /\ Count(trace, "translated") = 1
        /\ ExecuteCalls = 1
        /\ \A i \in Positions(trace, "translate") :
             \A j \in Positions(trace, "exec") : i < j
        /\ pc \in {"Dispatching", "Idle"}
        /\ exit_cause = "none"
        /\ (pc = "Idle" => PromptsShown = 2)

C2_Witness ==
    /\ pc = "Idle"
    /\ Has("read", "confirmation")
    /\ LineRead("command") = <<"!","l","s">>
    /\ LineRead("confirmation") = <<"Y">>
    /\ ExecuteCalls = 1
    /\ Has("exited", "nonzero")

-----------------------------------------------------------------------------
(* C3 *)

\* C3: once a "!" line was answered by a confirmation line that does not say
\* yes (the empty line included), call_llm has been called exactly once,
\* execute_command not at all, the skip notice is shown and main() is back at
\* the prompt.
C3_DeclineSkips ==
    (Has("read", "confirmation") /\ ~SaysYes(LineRead("confirmation"))) =>
        /\ StartsWith(LineRead("command"), <<"!">>)
        /\ TranslateCalls = 1
        /\ ExecuteCalls = 0
        /\ CountPrinted(trace, "skipped") = 1
        /\ pc = "Idle"
        /\ exit_cause = "none"

C3_Witness ==
    /\ pc = "Idle"
    /\ Has("read", "confirmation")
    /\ LineRead("confirmation") = <<>>
    /\ CountPrinted(trace, "skipped") = 1

-----------------------------------------------------------------------------
(* C4 *)

\* C4: a line that is not "exit" in any letter case and does not begin with
\* "!" is handed to execute_command exactly once, as it was typed, with no
\* call of call_llm and no confirmation prompt.
C4_DirectCommand ==
    (/\ Classified
     /\ Lower(LineRead("command")) # <<"e","x","i","t">>
     /\ ~StartsWith(LineRead("command"), <<"!">>)) =>
        /\ ExecuteCalls = 1
        /\ \A i \in Positions(trace, "exec") :
             trace[i].what = "direct" /\ trace[i].text = LineRead("command")
        /\ TranslateCalls = 0
        /\ ConfirmPrompts = 0
        /\ PromptsShown = 1
        /\ pc \in {"Dispatching", "Idle"}

C4_Witness ==
    /\ pc = "Idle"
    /\ Has("read", "command")
    /\ LineRead("command") = <<" ","e","x","i","t">>
    /\ ExecuteCalls = 1
    /\ Has("exited", "zero")

-----------------------------------------------------------------------------
(* C5 *)

\* C5: a line equal to "exit" in any letter case, read at the "> " prompt,
\* prints the farewell exactly once and ends main(), with no call of
\* execute_command or call_llm; and once main() has ended nothing more
\* happens: no further line is read.
C5_ExitTerminates ==
    /\ (Classified /\ Lower(LineRead("command")) = <<"e","x","i","t">>) =>
          /\ pc = "Terminated"
          /\ exit_cause = "exit"
          /\ CountPrinted(trace, "farewell") = 1
          /\ ExecuteCalls = 0
          /\ TranslateCalls = 0
          /\ PromptsShown = 1
    /\ (pc = "Terminated" => ~ENABLED Next)

C5_Witness ==
    /\ pc = "Terminated"
    /\ Has("read", "command")
    /\ LineRead("command") = <<"E","x","I","T">>
    /\ CountPrinted(trace, "farewell") = 1

-----------------------------------------------------------------------------
(* C6 *)

\* C6: when the model call made for a "!" line fails, the failure is shown
\* as text, no confirmation is asked, nothing is executed and main() goes
\* back to the prompt.
C6_TranslationErrorRecovered ==
    ModelFailed =>
        /\ pc = "Idle"
        /\ exit_cause = "none"
        /\ \E i \in DOMAIN trace : trace[i].ev = "print"
        /\ ConfirmPrompts = 0
        /\ ExecuteCalls = 0

-----------------------------------------------------------------------------
(* C7 *)

\* C7: the confirmation prompt is never shown for an empty suggested command
\* and an empty suggested command is never handed to execute_command.
C7_NoEmptySuggestion ==
    \A i \in DOMAIN trace :
        /\ (trace[i].ev = "prompt" /\ trace[i].what = "confirmation")
              => trace[i].text # <<>>
        /\ (trace[i].ev = "exec" /\ trace[i].what = "suggested")
              => trace[i].text # <<>>

-----------------------------------------------------------------------------
(* C8 *)

\* C8: once the loop has been entered, main() ends only because of an "exit"
\* line, an end of input or a failure of the interactive read.
C8_OnlyDeliberateTermination ==
    (pc = "Terminated" /\ exit_cause # "startup_failure") =>
        exit_cause \in {"exit", "eof", "read_failure"}

-----------------------------------------------------------------------------
(* C9 *)

\* C9: an interrupt while a command line or a confirmation line is being
\* read prints the cancellation notice and leaves main() at the prompt, not
\* ended, with nothing executed in that iteration; and a suggested command is
\* executed only in the iteration that translated it, with no interrupted
\* read in between, so one that was pending at the interrupt is never run.
C9_InterruptCancels ==
    /\ InterruptedRead =>
          /\ pc = "Idle"
          /\ exit_cause = "none"
          /\ CountPrinted(trace, "canceled") = 1
          /\ ExecuteCalls = 0
    /\ \A i \in DOMAIN trace :
          (trace[i].ev = "exec" /\ trace[i].what = "suggested") =>
              /\ ~InterruptedRead
              /\ \E j \in 1..(i-1) :
                    trace[j].ev = "translated" /\ Strip(trace[j].text) = trace[i].text

C9_Witness ==
    /\ pc = "Idle"
    /\ Has("interrupt", "confirmation")
    /\ llm_command = <<"l","s">>
    /\ CountPrinted(trace, "canceled") = 1

-----------------------------------------------------------------------------
(* C10 *)

\* C10: an end of input while a command line or a confirmation line is being
\* read prints the exiting notice and ends main(), with nothing executed,
\* the suggested command that was pending included.
C10_EndOfInputTerminates ==
    EndOfInputRead =>
        /\ pc = "Terminated"
        /\ exit_cause = "eof"
        /\ CountPrinted(trace, "exiting") = 1
        /\ ExecuteCalls = 0

C10_Witness ==
    /\ pc = "Terminated"
    /\ Has("eof", "confirmation")
    /\ llm_command = <<"l","s">>
    /\ CountPrinted(trace, "exiting") = 1

-----------------------------------------------------------------------------
(* C11 *)

\* what the child of this iteration wrote, as subprocess.run captured it
Captured(w) == trace[CHOOSE i \in DOMAIN trace : trace[i].ev = "captured" /\ trace[i].what = w].text

\* C11: when the command handed to execute_command, typed or suggested,
\* exits non-zero, the captured standard error is printed, the captured
\* standard output is not, no exception leaves execute_command and main() is
\* back at the prompt, not ended.
C11_NonZeroExitShowsStderr ==
    Has("exited", "nonzero") =>
        /\ pc = "Idle"
        /\ exit_cause = "none"
        /\ ExecuteCalls = 1
        /\ trace[Len(trace)] = Ev("print", "stderr", Captured("stderr"))
        /\ CountPrinted(trace, "stderr") = 1
        /\ CountPrinted(trace, "stdout") = 0

C11_Witness ==
    /\ pc = "Idle"
    /\ Has("exited", "nonzero")
    /\ Has("exec", "suggested")
    /\ Captured("stdout") = <<"o">>
    /\ Captured("stderr") = <<"e">>
    /\ trace[Len(trace)].text = <<"e">>

-----------------------------------------------------------------------------
(* C12 *)

\* a variable that is set and not empty
IsSet(v) == v # None /\ v # <<>>

\* the value detect_shell looks at: SHELL, or ComSpec when SHELL is absent or empty
Consulted == IF IsSet(env_SHELL) THEN env_SHELL ELSE env_ComSpec

HasBash(v) == v # None /\ Contains(v, <<"b","a","s","h">>)
HasCmd(v) == v # None /\ Contains(v, <<"c","m","d">>)
HasPowershellAnyCase(v) ==
    v # None /\ Contains(Lower(v), <<"p","o","w","e","r","s","h","e","l","l">>)
HasCmdAnyCase(v) == v # None /\ Contains(Lower(v), <<"c","m","d">>)
MatchesNone(v) == ~HasBash(v) /\ ~HasPowershellAnyCase(v) /\ ~HasCmdAnyCase(v)

\* C12 as stated: bash whenever SHELL contains "bash", cmd whenever SHELL
\* contains "cmd", powershell whenever ComSpec contains "powershell" in any
\* letter case, unknown when both are absent or nothing matches.
C12_Original ==
    pc = "Detected" =>
        /\ HasBash(env_SHELL) => call_llm_shell = BASH
        /\ HasCmd(env_SHELL) => call_llm_shell = CMD
        /\ HasPowershellAnyCase(env_ComSpec) => call_llm_shell = POWERSHELL
        /\ (env_SHELL = None /\ env_ComSpec = None) => call_llm_shell = UNKNOWN
        /\ MatchesNone(Consulted) => call_llm_shell = UNKNOWN

\* C12 (amended): detect_shell returns bash whenever SHELL contains "bash";
\* cmd when SHELL contains "cmd" and neither "bash" nor, in any letter case,
\* "powershell"; powershell when SHELL is absent or empty and ComSpec
\* contains "powershell" in any letter case and not "bash"; unknown when both
\* are absent or the value looked at matches none of the three; and the
\* result is always one of the four dialects.
C12_DetectShell ==
    pc = "Detected" =>
        /\ HasBash(env_SHELL) => call_llm_shell = BASH
        /\ (HasCmd(env_SHELL) /\ ~HasBash(env_SHELL)
              /\ ~HasPowershellAnyCase(env_SHELL)) => call_llm_shell = CMD
        /\ (~IsSet(env_SHELL) /\ HasPowershellAnyCase(env_ComSpec)
              /\ ~HasBash(env_ComSpec)) => call_llm_shell = POWERSHELL
        /\ (env_SHELL = None /\ env_ComSpec = None) => call_llm_shell = UNKNOWN
        /\ MatchesNone(Consulted) => call_llm_shell = UNKNOWN
        /\ call_llm_shell \in {BASH, POWERSHELL, CMD, UNKNOWN}

C12_Witness ==
    /\ pc = "Detected"
    /\ env_SHELL = None
    /\ env_ComSpec = <<"C","M","D","P","o","w","e","r","S","h","e","l","l">>
    /\ call_llm_shell = <<"p","o","w","e","r","s","h","e","l","l">>

-----------------------------------------------------------------------------
(* C19 *)

\* C19: ComSpec is looked at only when SHELL is absent or empty, so a
\* non-empty SHELL matching no name gives unknown whatever ComSpec holds;
\* in the value looked at, "bash" (as written) wins over "powershell" (any
\* case), which wins over "cmd" (any case).
C19_FallbackAndPrecedence ==
    pc = "Detected" =>
        /\ (IsSet(env_SHELL) /\ MatchesNone(env_SHELL)) => call_llm_shell = UNKNOWN
        /\ HasBash(Consulted) => call_llm_shell = BASH
        /\ ~HasBash(Consulted) => call_llm_shell # BASH
        /\ (HasPowershellAnyCase(Consulted) /\ ~HasBash(Consulted))
              => call_llm_shell = POWERSHELL
        /\ (HasCmdAnyCase(Consulted) /\ ~HasBash(Consulted)
              /\ ~HasPowershellAnyCase(Consulted)) => call_llm_shell = CMD

C19_Witness ==
    /\ pc = "Detected"
    /\ env_SHELL = <<"z","s","h","B","a","s","h">>
    /\ env_ComSpec = <<"c","m","d","b","a","s","h">>
    /\ call_llm_shell = <<"u","n","k","n","o","w","n">>

-----------------------------------------------------------------------------
(* C13 *)

\* the dialect of the environment, by the rules of C19
ExpectedDialect ==
    IF HasBash(Consulted) THEN <<"b","a","s","h">>
    ELSE IF HasPowershellAnyCase(Consulted) THEN <<"p","o","w","e","r","s","h","e","l","l">>
    ELSE IF HasCmdAnyCase(Consulted) THEN <<"c","m","d">>
    ELSE <<"u","n","k","n","o","w","n">>

\* the line without its first character, trimmed
RestTrimmed(line) == Strip(SubSeq(line, 2, Len(line)))

\* C13: for a line whose first character is "!", the model is called once,
\* with two messages: the system message is the prompt composed for the
\* dialect of the environment at that moment, the user message is the rest of
\* the line after that one "!", trimmed.
C13_MessagesSent ==
    /\ pc = "Translating" =>
          /\ Len(messages) = 2
          /\ messages[1] = [role |-> "system",
                            content |-> get_system_prompt(ExpectedDialect)]
          /\ messages[2] = [role |-> "user",
                            content |-> RestTrimmed(LineRead("command"))]
          /\ SubSeq(messages[1].content, 2, 1 + Len(ExpectedDialect)) = ExpectedDialect
    /\ pc # "Translating" => messages = <<>>
    /\ (Classified /\ StartsWith(LineRead("command"), <<"!">>)) =>
          /\ TranslateCalls = 1
          /\ \A i \in Positions(trace, "translate") :
                trace[i].text = RestTrimmed(LineRead("command"))
          /\ Count(trace, "translated") + Count(trace, "translate_failed") <= 1

C13_Witness ==
    /\ pc = "Translating"
    /\ user_input = <<"!"," ","l","s"," ">>
    /\ messages[2].content = <<"l","s">>
    /\ env_SHELL = None
    /\ env_ComSpec = <<"c","m","d",".","e","x","e">>
    /\ messages[1].content[2] = "c"

-----------------------------------------------------------------------------
(* C15 *)

\* C15: when the model cannot be resolved or loaded at startup, main() ends
\* at once: no banner, no prompt, no line read, no call of call_llm or
\* execute_command, and nothing happens afterwards.
C15_StartupFailureIsFatal ==
    (Has("configure_failed", "") \/ exit_cause = "startup_failure") =>
        /\ pc = "Terminated"
        /\ exit_cause = "startup_failure"
        /\ trace = <<Ev("configure_failed", "", <<>>)>>
        /\ user_input = None
        /\ llm_command = None
        /\ confirmation = None
        /\ ~ENABLED Next

C15_Witness ==
    /\ pc = "Terminated"
    /\ exit_cause = "startup_failure"
    /\ Has("configure_failed", "")

-----------------------------------------------------------------------------
(* C16 *)

ConfirmReads == Len(SelectSeq(trace, LAMBDA x : x.ev = "read" /\ x.what = "confirmation"))
CommandReads == Len(SelectSeq(trace, LAMBDA x : x.ev = "read" /\ x.what = "command"))

\* positions of the confirmation reads
ConfirmReadPositions ==
    {i \in DOMAIN trace : trace[i].ev = "read" /\ trace[i].what = "confirmation"}

\* the step shows the "> " prompt: a new iteration starts
StartsIteration ==
    /\ trace' # trace
    /\ Len(trace') >= 1
    /\ trace'[1] = Ev("prompt", "command", <<>>)
    /\ ~(Len(trace) >= 1 /\ Len(trace') > Len(trace)
           /\ SubSeq(trace', 1, Len(trace)) = trace)

\* C16: one line is processed to completion before the next is read: an
\* iteration holds one "> " prompt, at most one call of call_llm, at most one
\* confirmation read and at most one call of execute_command, in that order;
\* and the "> " prompt is shown only when main() is at the top of the loop
\* with no call_llm or execute_command still running.
C16_Invariant ==
    /\ Len(SelectSeq(trace, LAMBDA x : x.ev = "prompt" /\ x.what = "command")) <= 1
    /\ CommandReads <= 1
    /\ TranslateCalls <= 1
    /\ ConfirmReads <= 1
    /\ ExecuteCalls <= 1
    /\ \A i \in Positions(trace, "translate") :
          /\ \A j \in ConfirmReadPositions : i < j
          /\ \A j \in Positions(trace, "exec") : i < j
    /\ \A i \in ConfirmReadPositions : \A j \in Positions(trace, "exec") : i < j
    /\ \A i \in DOMAIN trace :
          (trace[i].ev = "read" /\ trace[i].what = "command") =>
              \A j \in Positions(trace, "translate") \cup ConfirmReadPositions
                       \cup Positions(trace, "exec") : i < j

C16_OneLineAtATime ==
    /\ []C16_Invariant
    /\ [][StartsIteration =>
            (pc = "Idle" /\ command = None /\ messages = <<>>)]_vars

C16_Witness ==
    /\ pc = "Idle"
    /\ TranslateCalls = 1
    /\ ConfirmReads = 1
    /\ ExecuteCalls = 1
    /\ Has("exited", "zero")

-----------------------------------------------------------------------------
(* C17 *)

\* the content the model returned in this iteration
ContentReturned == trace[CHOOSE i \in DOMAIN trace : trace[i].ev = "translated"].text

\* C17: the command executed after a yes is the trimmed content of the
\* model's first choice, the very string printed by call_llm and shown in the
\* confirmation prompt; so whenever that string differs from the typed line
\* and from its instruction text, these are not what is executed.
C17_ExecutesTheSuggestion ==
    /\ \A i \in DOMAIN trace :
          (trace[i].ev = "exec" /\ trace[i].what = "suggested") =>
              /\ Count(trace, "translated") = 1
              /\ trace[i].text = Strip(ContentReturned)
              /\ \A j \in DOMAIN trace :
                    (trace[j].ev = "prompt" /\ trace[j].what = "confirmation")
                        => trace[j].text = trace[i].text
              /\ \A j \in DOMAIN trace :
                    (trace[j].ev = "print" /\ trace[j].what = "suggested")
                        => trace[j].text = trace[i].text
              /\ ConfirmPrompts = 1
              /\ (pc = "Dispatching" => command = trace[i].text)
              /\ \A j \in Positions(trace, "exited") : trace[j].text = trace[i].text
    /\ (pc = "Dispatching" /\ Has("read", "confirmation")) =>
          /\ command = Strip(ContentReturned)
          /\ (Strip(ContentReturned) # user_input => command # user_input)

C17_Witness ==
    /\ pc = "Dispatching"
    /\ Has("exec", "suggested")
    /\ user_input = <<"!","l","s">>
    /\ ContentReturned = <<" ","l","s"," ">>
    /\ command = <<"l","s">>

-----------------------------------------------------------------------------
(* C18 *)

\* what was done with the line: how many of the three outcomes
Outcomes ==
    (IF CountPrinted(trace, "farewell") = 1 THEN 1 ELSE 0)
    + TranslateCalls
    + Len(SelectSeq(trace, LAMBDA x : x.ev = "exec" /\ x.what = "direct"))

\* lines that only look like "exit" or like a "!" line once trimmed, and the
\* empty line
LooksSpecial(line) ==
    \/ line = <<>>
    \/ (Lower(Strip(line)) = <<"e","x","i","t">> /\ Strip(line) # line)
    \/ (StartsWith(Strip(line), <<"!">>) /\ line[1] \in Whitespace)

\* C18: every line read is classified as exactly one of exit, translation
\* request and direct command, on the text as typed: the empty line, "exit"
\* with whitespace around it and a "!" line with whitespace in front are
\* direct commands, executed once as typed, without confirmation.
C18_ClassificationUntrimmed ==
    /\ pc = "Classified" => ENABLED Next
    /\ Classified =>
          /\ Outcomes = 1
          /\ CountPrinted(trace, "farewell") = 1
                <=> Lower(LineRead("command")) = <<"e","x","i","t">>
          /\ TranslateCalls = 1
                <=> (Len(LineRead("command")) >= 1 /\ LineRead("command")[1] = "!")
    /\ (Classified /\ LooksSpecial(LineRead("command"))) =>
          /\ ExecuteCalls = 1
          /\ \A i \in Positions(trace, "exec") :
                trace[i].what = "direct" /\ trace[i].text = LineRead("command")
          /\ TranslateCalls = 0
          /\ ConfirmPrompts = 0
          /\ pc \in {"Dispatching", "Idle"}

C18_Witness ==
    /\ pc = "Idle"
    /\ Has("read", "command")
    /\ LineRead("command") = <<"\t","!","l","s">>
    /\ ExecuteCalls = 1
    /\ Has("exited", "zero")

-----------------------------------------------------------------------------
(* C20 *)

Intermediate == {"Classified", "Translating", "AwaitingConfirmation", "Dispatching"}

\* the "!" line of this iteration has been read and no confirmation asked yet
FreshTranslation ==
    /\ Has("read", "command")
    /\ StartsWith(LineRead("command"), <<"!">>)
    /\ ConfirmPrompts = 0

\* C20: when every blocking call returns or raises, main() always gets from
\* Classified, Translating, AwaitingConfirmation and Dispatching back to the
\* prompt or to its end; it waits for a confirmation only after a model call
\* made for a "!" line of the same iteration, once, and does not ask again.
C20_BackToIdle ==
    /\ (pc \in Intermediate) ~> (pc \in {"Idle", "Terminated"})
    /\ [][(pc' = "AwaitingConfirmation") =>
            (pc = "Translating" /\ FreshTranslation)]_vars

C20_Witness ==
    /\ pc = "Idle"
    /\ Has("read", "confirmation")
    /\ Has("interrupt", "execute")

====
